---- MODULE Spec2Model ----
(***************************************************************************)
(* Model of the typed event module of the blog (createEventModule):        *)
(*   emit                  -> new CustomEvent(String(key)) + dispatchEvent *)
(*   useTypedEventListener -> a React hook: a handler ref kept up to date  *)
(*                            by one effect, and a window listener         *)
(*                            installed / removed by a second effect.      *)
(* The window's event listener list and the dispatch algorithm follow the  *)
(* DOM standard (add/remove an event listener, dispatch, inner invoke);    *)
(* the effects follow React's rules (effects run after the render that     *)
(* scheduled them, the cleanup of an effect runs before its next run and   *)
(* on unmount).                                                            *)
(***************************************************************************)
EXTENDS Integers, Sequences, FiniteSets, TLC

\* ---- bounds -------------------------------------------------------------
MaxScopes == 2        \* useListener call sites that can be mounted
MaxHandlers == 3      \* handler closures the callers create over a behaviour
MaxPayload == 2       \* distinct payload values
MaxListeners == 3     \* eventListener closures created over a behaviour

Scopes == 1..MaxScopes
Handlers == 1..MaxHandlers
Payloads == 1..MaxPayload

\* ---- event identifiers ---------------------------------------------------
\* A symbol is an identity (sid) plus its description.
MESSAGE_SENT == [sid |-> "MyEvent.MESSAGE_SENT", description |-> "MESSAGE_SENT"]
COUNTER_CHANGED == [sid |-> "MyEvent.COUNTER_CHANGED", description |-> "COUNTER_CHANGED"]
MyEventKeys_MESSAGE_SENT == [sid |-> "MyEventKeys.MESSAGE_SENT", description |-> "MESSAGE_SENT"]

EventKeys == {MESSAGE_SENT, COUNTER_CHANGED, MyEventKeys_MESSAGE_SENT}

\* String(eventKey) of a symbol: "Symbol(<description>)"; the identity is lost.
String(eventKey) == "Symbol(" \o eventKey.description \o ")"

\* ---- listener options ----------------------------------------------------
\* options?: boolean | AddEventListenerOptions, as the values a caller passes:
\* undefined, true (capture) and a stable {once: true} object.
NoOptions == [capture |-> FALSE, once |-> FALSE]
CaptureOptions == [capture |-> TRUE, once |-> FALSE]
OnceOptions == [capture |-> FALSE, once |-> TRUE]
ListenerOptions == {NoOptions, CaptureOptions, OnceOptions}

None == [none |-> TRUE]

VARIABLES
  listeners,    \* window's event listener list, in insertion order
  scope,        \* scope[s]: the hook state of call site s (replaced: the caller
                \* has supplied a new handler since the first render) and, in
                \* the receiver scenario, the list its handler appends to
                \* (received) and what was emitted for it (expected)
  dispatch,     \* the dispatchEvent call in progress, if any (running: the
                \* closure whose call has not returned; reported: the closures
                \* whose exception was reported; exception: the exception
                \* leaving dispatchEvent towards the caller of emit;
                \* selfOnly: no handler of the pass has changed the
                \* registration of another call site; added:
                \* the closures registered since the current phase began)
  invoked,      \* handler invocations of the current / most recent emit
  regAtCall,    \* listener list at the moment of the most recent emit call
  nextListener, \* identity of the next eventListener closure
  nextHandler,  \* identity of the next handler closure a caller creates
  tornDown,     \* identities of the eventListener closures whose cleanup has run
  sender        \* the state of the EventSender component: messageText, counter
                \* and the click handler that is waiting for its emit to return

vars == <<listeners, scope, dispatch, invoked, regAtCall, nextListener,
          nextHandler, tornDown, sender>>

\* ---- window.addEventListener / removeEventListener -----------------------
SameListener(l, type, callback, capture) ==
  l.type = type /\ l.callback = callback /\ l.capture = capture

\* Mutant: the once option is ignored.
addEventListenerNoOnce(list, type, callback, options) ==
  IF \E i \in 1..Len(list) : SameListener(list[i], type, callback, options.capture)
  THEN list
  ELSE Append(list, [type |-> type, callback |-> callback,
                     capture |-> options.capture, once |-> FALSE])

\* Mutant: the new listener is put at the front of the list.
addEventListenerFirst(list, type, callback, options) ==
  IF \E i \in 1..Len(list) : SameListener(list[i], type, callback, options.capture)
  THEN list
  ELSE <<[type |-> type, callback |-> callback,
          capture |-> options.capture, once |-> options.once]>> \o list

addEventListener(list, type, callback, options) ==
  IF \E i \in 1..Len(list) : SameListener(list[i], type, callback, options.capture)
  THEN list
  ELSE Append(list, [type |-> type, callback |-> callback,
                     capture |-> options.capture, once |-> options.once])

\* Mutant: the removal matches on the event type alone.
removeEventListenerByType(list, type, callback, options) ==
  LET Keep(l) == l.type # type
  IN SelectSeq(list, Keep)

removeEventListener(list, type, callback, options) ==
  LET Keep(l) == ~SameListener(l, type, callback, options.capture)
  IN SelectSeq(list, Keep)

\* ---- initial state -------------------------------------------------------
\* No component is mounted, nothing is registered, no emit has been made.
UnmountedScope ==
  [status |-> "unmounted", eventKey |-> None, handler |-> None, options |-> None,
   handlerRef |-> None, pendingHandler |-> FALSE, pendingListener |-> FALSE,
   cleanup |-> None, replaced |-> FALSE,
   received |-> <<>>, expected |-> <<>>]

IdleDispatch ==
  [active |-> FALSE, eventKey |-> None, payload |-> None,
   type |-> None, detail |-> None, phase |-> None, todo |-> <<>>,
   running |-> None, reported |-> {}, exception |-> None, selfOnly |-> TRUE,
   added |-> {}]

\* EventSender after its first render: useState(''), useState(0).
IdleSender == [messageText |-> <<>>, counter |-> 0, emitting |-> None]

Init ==
  /\ listeners = <<>>
  /\ scope = [s \in Scopes |-> UnmountedScope]
  /\ dispatch = IdleDispatch
  /\ invoked = <<>>
  /\ regAtCall = <<>>
  /\ nextListener = 1
  /\ nextHandler = 1
  /\ tornDown = {}
  /\ sender = IdleSender

\* ---- useTypedEventListener: render ---------------------------------------
\* React flushes the effects of the previous commit before it renders again.
EffectsFlushed == \A t \in Scopes : scope[t].status \in {"unmounted", "active"}

\* Call sites are interchangeable: a new one takes the lowest free index.
FirstUnmounted(s) ==
  /\ scope[s].status = "unmounted"
  /\ \A t \in Scopes : scope[t].status = "unmounted" => s <= t

\* First render of a call site with a handler closure of the caller:
\* useRef(handler) initialises the ref, and both effects are scheduled.
Mount(s, eventKey, handler, options) ==
  /\ ~dispatch.active
  /\ EffectsFlushed
  /\ FirstUnmounted(s)
  /\ nextListener <= MaxListeners
  /\ handler = nextHandler
  /\ nextHandler' = nextHandler + 1
  /\ scope' = [scope EXCEPT ![s] =
       [status |-> "rendered", eventKey |-> eventKey, handler |-> handler,
        options |-> options, handlerRef |-> handler,
        pendingHandler |-> TRUE, pendingListener |-> TRUE, cleanup |-> None,
        replaced |-> FALSE, received |-> <<>>, expected |-> <<>>]]
  /\ UNCHANGED <<sender, listeners, dispatch, invoked, regAtCall, nextListener, tornDown>>

\* Mutant: the listener effect also depends on the handler.
RerenderHandlerDep(s, eventKey, handler, options) ==
  /\ ~dispatch.active
  /\ EffectsFlushed
  /\ scope[s].status = "active"
  /\ handler \in {scope[s].handler, nextHandler}
  /\ LET depsHandler == handler # scope[s].handler
         depsListener == \/ eventKey # scope[s].eventKey
                         \/ options # scope[s].options
                         \/ depsHandler
     IN /\ depsListener
        /\ nextListener <= MaxListeners
        /\ scope' = [scope EXCEPT ![s].status = "rendered",
                                  ![s].eventKey = eventKey,
                                  ![s].handler = handler,
                                  ![s].options = options,
                                  ![s].pendingHandler = depsHandler,
                                  ![s].pendingListener = depsListener,
                                  ![s].replaced = @ \/ depsHandler]
        /\ nextHandler' = IF depsHandler THEN nextHandler + 1 ELSE nextHandler
  /\ UNCHANGED <<sender, listeners, dispatch, invoked, regAtCall, nextListener, tornDown>>

\* A later render, with the handler closure of the previous render or a new
\* one: an effect is scheduled when one of its dependencies differs from the
\* previous render's ([handler], [eventKey, options]).
Rerender(s, eventKey, handler, options) ==
  /\ ~dispatch.active
  /\ EffectsFlushed
  /\ scope[s].status = "active"
  /\ handler \in {scope[s].handler, nextHandler}
  /\ LET depsListener == eventKey # scope[s].eventKey \/ options # scope[s].options
         depsHandler == handler # scope[s].handler
     IN /\ depsListener \/ depsHandler
        /\ depsListener => nextListener <= MaxListeners
        /\ scope' = [scope EXCEPT ![s].status = "rendered",
                                  ![s].eventKey = eventKey,
                                  ![s].handler = handler,
                                  ![s].options = options,
                                  ![s].pendingHandler = depsHandler,
                                  ![s].pendingListener = depsListener,
                                  ![s].replaced = @ \/ depsHandler]
        /\ nextHandler' = IF depsHandler THEN nextHandler + 1 ELSE nextHandler
  /\ UNCHANGED <<sender, listeners, dispatch, invoked, regAtCall, nextListener, tornDown>>

\* ---- useTypedEventListener: effects --------------------------------------
\* Mutant: the cleanup drops the options, so the capture flag defaults to false.
RunCleanupNoOptions(list, c) ==
  removeEventListener(list, String(c.eventKey), c.callback, NoOptions)

\* The function returned by the listener effect; it closes over the effect's
\* eventKey, eventListener and options.
RunCleanup(list, c) ==
  removeEventListener(list, String(c.eventKey), c.callback, c.options)

\* The cleanup of the listener effect, run before the effect runs again.
CleanupEffect(s) ==
  /\ ~dispatch.active
  /\ scope[s].status = "rendered"
  /\ scope[s].pendingListener
  /\ scope[s].cleanup # None
  /\ listeners' = RunCleanup(listeners, scope[s].cleanup)
  /\ tornDown' = tornDown \cup {scope[s].cleanup.callback.id}
  /\ scope' = [scope EXCEPT ![s].cleanup = None]
  /\ UNCHANGED <<sender, dispatch, invoked, regAtCall, nextListener, nextHandler>>

\* Mutant: the handler effect does not write the ref.
HandlerEffectStale(sc) == [sc EXCEPT !.pendingHandler = FALSE]

\* handlerRef.current = handler
HandlerEffect(sc) ==
  IF sc.pendingHandler THEN [sc EXCEPT !.handlerRef = sc.handler, !.pendingHandler = FALSE]
  ELSE sc

\* The eventListener closure created by one run of the listener effect of
\* call site s: it reads the ref of s when invoked.
EventListener(s, id, eventKey) == [id |-> id, scope |-> s, eventKey |-> eventKey]

\* The two effects of a render, in the order the hook declares them.
CreateEffects(s) ==
  /\ ~dispatch.active
  /\ scope[s].status = "rendered"
  /\ scope[s].pendingListener => scope[s].cleanup = None
  /\ LET sc == HandlerEffect(scope[s])
         eventListener == EventListener(s, nextListener, sc.eventKey)
     IN IF sc.pendingListener
        THEN /\ listeners' = addEventListener(listeners, String(sc.eventKey),
                                              eventListener, sc.options)
             /\ nextListener' = nextListener + 1
             /\ scope' = [scope EXCEPT ![s] =
                  [sc EXCEPT !.status = "active", !.pendingListener = FALSE,
                             !.cleanup = [eventKey |-> sc.eventKey,
                                          callback |-> eventListener,
                                          options |-> sc.options]]]
        ELSE /\ scope' = [scope EXCEPT ![s] = [sc EXCEPT !.status = "active"]]
             /\ UNCHANGED <<listeners, nextListener>>
  /\ UNCHANGED <<sender, dispatch, invoked, regAtCall, tornDown, nextHandler>>

\* The component of call site s is removed; its cleanup is still to run.
Unmount(s) ==
  /\ ~dispatch.active
  /\ EffectsFlushed
  /\ scope[s].status = "active"
  /\ scope' = [scope EXCEPT ![s].status = "unmounting"]
  /\ UNCHANGED <<sender, listeners, dispatch, invoked, regAtCall, nextListener, tornDown, nextHandler>>

\* Mutant: the listener effect returns no cleanup, so unmounting removes nothing.
UnmountNoCleanup(s) ==
  /\ ~dispatch.active
  /\ scope[s].status = "unmounting"
  /\ tornDown' = tornDown \cup {scope[s].cleanup.callback.id}
  /\ scope' = [scope EXCEPT ![s] = UnmountedScope]
  /\ UNCHANGED <<sender, listeners, dispatch, invoked, regAtCall, nextListener, nextHandler>>

\* The cleanup of the listener effect on unmount.
UnmountCleanup(s) ==
  /\ ~dispatch.active
  /\ scope[s].status = "unmounting"
  /\ listeners' = RunCleanup(listeners, scope[s].cleanup)
  /\ tornDown' = tornDown \cup {scope[s].cleanup.callback.id}
  /\ scope' = [scope EXCEPT ![s] = UnmountedScope]
  /\ UNCHANGED <<sender, dispatch, invoked, regAtCall, nextListener, nextHandler>>

\* ---- emit: new CustomEvent + window.dispatchEvent ------------------------
\* Mutant: the event is created without its detail (0 stands for null).
CustomEventNoDetail(type, detail) == [type |-> type, detail |-> 0]

\* new CustomEvent(String(eventKey), {detail: payload})
CustomEvent(type, detail) == [type |-> type, detail |-> detail]

\* The listener is still in the window's list (its removed flag is unset).
Registered(list, l) == \E i \in 1..Len(list) : list[i] = l

\* DOM inner invoke: which listeners of the cloned list the phase calls.
PhaseAccepts(phase, l) ==
  IF phase = "capturing" THEN l.capture ELSE ~l.capture

Eligible(d, list, l) ==
  /\ Registered(list, l)
  /\ l.type = d.type
  /\ PhaseAccepts(d.phase, l)

EligibleIndexes(d, list) == {i \in 1..Len(d.todo) : Eligible(d, list, d.todo[i])}

Min(S) == CHOOSE x \in S : \A y \in S : x <= y

\* emit is called: the event is created and its dispatch starts with the
\* capturing phase on a clone of the window's listener list.
EmitCall(eventKey, payload) ==
  /\ ~dispatch.active
  /\ LET event == CustomEvent(String(eventKey), payload)
     IN dispatch' = [active |-> TRUE, eventKey |-> eventKey, payload |-> payload,
                     type |-> event.type, detail |-> event.detail,
                     phase |-> "capturing", todo |-> listeners,
                     running |-> None, reported |-> {}, exception |-> None, selfOnly |-> TRUE,
   added |-> {}]
  /\ invoked' = <<>>
  /\ regAtCall' = listeners
  /\ UNCHANGED <<sender, listeners, scope, nextListener, tornDown, nextHandler>>

\* eventListener(event): handlerRef.current(customEvent.detail)
CallListener(l, detail) ==
  [listener |-> l.callback, handler |-> scope[l.callback.scope].handlerRef,
   payload |-> detail]

\* The dispatch calls the next listener of the phase; a once listener is
\* removed from the window's list before its callback runs.
InvokeListener ==
  /\ dispatch.active
  /\ EligibleIndexes(dispatch, listeners) # {}
  /\ LET i == Min(EligibleIndexes(dispatch, listeners))
         l == dispatch.todo[i]
     IN /\ listeners' = IF l.once
                        THEN removeEventListener(listeners, l.type, l.callback, l)
                        ELSE listeners
        /\ invoked' = Append(invoked, CallListener(l, dispatch.detail))
        /\ dispatch' = [dispatch EXCEPT
                          !.todo = SubSeq(dispatch.todo, i + 1, Len(dispatch.todo)),
                          !.running = l.callback]
  /\ UNCHANGED <<sender, scope, regAtCall, nextListener, tornDown, nextHandler>>

\* The capturing phase is over: the bubbling phase starts on a fresh clone.
BubblingPhase ==
  /\ dispatch.active
  /\ dispatch.phase = "capturing"
  /\ EligibleIndexes(dispatch, listeners) = {}
  /\ dispatch' = [dispatch EXCEPT !.phase = "bubbling", !.todo = listeners,
                                  !.running = None, !.added = {}]
  /\ UNCHANGED <<sender, listeners, scope, invoked, regAtCall, nextListener, tornDown, nextHandler>>

\* Mutant: dispatchEvent returns once the capturing phase is over.
DispatchDoneEarly(d, list) == d.phase = "bubbling"

\* dispatchEvent has called every listener of both phases.
DispatchDone(d, list) ==
  d.phase = "bubbling" /\ EligibleIndexes(d, list) = {}

\* dispatchEvent returns, emit logs and returns (no try/catch in emit: the
\* log is reached only when dispatchEvent returned).
EmitReturn ==
  /\ dispatch.active
  /\ DispatchDone(dispatch, listeners)
  /\ dispatch.exception = None
  /\ dispatch' = IdleDispatch
  /\ invoked' = <<>>
  /\ regAtCall' = <<>>
  /\ UNCHANGED <<sender, listeners, scope, nextListener, tornDown, nextHandler>>

\* ---- specification -------------------------------------------------------
Next ==
  \/ \E s \in Scopes, k \in EventKeys, h \in Handlers, o \in ListenerOptions :
       Mount(s, k, h, o)
  \/ \E s \in Scopes, k \in EventKeys, h \in Handlers, o \in ListenerOptions :
       Rerender(s, k, h, o)
  \/ \E s \in Scopes : CleanupEffect(s)
  \/ \E s \in Scopes : CreateEffects(s)
  \/ \E s \in Scopes : Unmount(s)
  \/ \E s \in Scopes : UnmountCleanup(s)
  \/ \E k \in EventKeys, p \in Payloads : EmitCall(k, p)
  \/ InvokeListener
  \/ BubblingPhase
  \/ EmitReturn

Spec == Init /\ [][Next]_vars

\* A dispatch runs to its end (dispatchEvent is synchronous), and React runs
\* the cleanup it has scheduled for an unmounted component.
Fairness ==
  /\ WF_vars(InvokeListener \/ BubblingPhase \/ EmitReturn)
  /\ \A s \in Scopes : SF_vars(UnmountCleanup(s))

LiveSpec == Spec /\ Fairness

\* ---- properties ----------------------------------------------------------
\* The dispatch has called every listener it will call; emit is about to return.
AboutToReturn == dispatch.active /\ DispatchDone(dispatch, listeners)

\* Listener entries in the order their closures were created, which is the
\* order in which the listener effects ran (the subscription order).
RECURSIVE InCreationOrder(_)
InCreationOrder(entries) ==
  IF entries = {} THEN <<>>
  ELSE LET first == CHOOSE l \in entries :
                      \A m \in entries : l.callback.id <= m.callback.id
       IN <<first>> \o InCreationOrder(entries \ {first})

\* The listeners that were registered for identifier k when emit was called,
\* in subscription order.
SubscribedAtCall(k) ==
  InCreationOrder({regAtCall[i] : i \in {j \in DOMAIN regAtCall :
                                          regAtCall[j].callback.eventKey = k}})

\* The positions of the pass at which closure c was called.
Calls(c) == {i \in DOMAIN invoked : invoked[i].listener = c}

\* C1: when exactly one handler is subscribed to k at the call of emit(k, p),
\* it is invoked exactly once during that emit (never twice while the dispatch
\* runs, once when emit returns), with the payload p.
C1_SingleHandlerOnce ==
  dispatch.active =>
    LET subs == SubscribedAtCall(dispatch.eventKey)
    IN Len(subs) = 1 =>
         LET c == subs[1].callback
         IN /\ Cardinality(Calls(c)) <= 1
            /\ AboutToReturn => Cardinality(Calls(c)) = 1
            /\ \A i \in Calls(c) :
                 /\ invoked[i].payload = dispatch.payload
                 /\ invoked[i].handler = scope[c.scope].handlerRef

\* C1 witness: emit is about to return, one handler was subscribed to the
\* emitted identifier and it has been called.
C1_Witness ==
  /\ AboutToReturn
  /\ Len(SubscribedAtCall(dispatch.eventKey)) = 1
  /\ Len(invoked) = 1
  /\ Len(regAtCall) = 2

\* C2: emit(a, p) never invokes a handler that was registered for another
\* identifier b.
C2_NoCrossDelivery ==
  \A i \in DOMAIN invoked : invoked[i].listener.eventKey = dispatch.eventKey

\* C3: a listener whose cleanup has run is not invoked by any emit that
\* starts afterwards (no cleanup runs while a dispatch is in progress).
C3_NoDeliveryAfterTeardown ==
  \A i \in DOMAIN invoked : invoked[i].listener.id \notin tornDown

\* C3 witness: a pass has delivered to a listener of the emitted type after
\* another listener of a scope was torn down.
C3_Witness ==
  /\ AboutToReturn
  /\ Len(invoked) >= 1
  /\ tornDown # {}
  /\ \E s \in Scopes : scope[s].status = "unmounted"

\* The closures of a sequence of listener entries.
Callbacks(entries) == [i \in DOMAIN entries |-> entries[i].callback]

\* The closures the pass has called for identifier k, in call order.
InvokedFor(k) ==
  LET ForKey(c) == c.eventKey = k
  IN SelectSeq([i \in DOMAIN invoked |-> invoked[i].listener], ForKey)

\* Listener entries with the capture flag, then those without, each group in
\* the order of the given sequence.
CaptureFirst(entries) ==
  LET IsCapture(l) == l.capture
      NotCapture(l) == ~l.capture
  IN SelectSeq(entries, IsCapture) \o SelectSeq(entries, NotCapture)

\* C4 as claimed: when emit returns, the handlers subscribed to the emitted
\* identifier have been invoked exactly once each, in subscription order.
C4_SubscriptionOrder ==
  AboutToReturn =>
    InvokedFor(dispatch.eventKey) = Callbacks(SubscribedAtCall(dispatch.eventKey))

\* C4 amended: when emit returns, the handlers subscribed to the emitted
\* identifier have been invoked exactly once each: first those subscribed with
\* the capture option, then the others, each group in subscription order.
C4_CaptureThenSubscriptionOrder ==
  AboutToReturn =>
    InvokedFor(dispatch.eventKey) =
      Callbacks(CaptureFirst(SubscribedAtCall(dispatch.eventKey)))

\* C4 witness: two handlers were subscribed to the emitted identifier, the
\* second one with the capture option, and both have been invoked.
C4_Witness ==
  /\ AboutToReturn
  /\ LET subs == SubscribedAtCall(dispatch.eventKey)
     IN /\ Len(subs) = 2
        /\ ~subs[1].capture
        /\ subs[2].capture
  /\ Len(invoked) = 2

\* The call site is mounted and its listener effect is not scheduled to run
\* again: the key and options are those of its registration.
KeepsRegistration(s) ==
  scope[s].status \in {"rendered", "active"} /\ ~scope[s].pendingListener

\* C5 as claimed: every delivery to a scope that stays active with the same
\* key and options invokes the handler of the scope's latest render.
C5_LatestHandler ==
  \A i \in DOMAIN invoked :
    LET s == invoked[i].listener.scope
    IN KeepsRegistration(s) => invoked[i].handler = scope[s].handler

\* C5 amended: every delivery that happens after the handler effect of the
\* latest render has run invokes the handler of that render.
C5_LatestHandlerAfterEffect ==
  \A i \in DOMAIN invoked :
    LET s == invoked[i].listener.scope
    IN (KeepsRegistration(s) /\ ~scope[s].pendingHandler) =>
         invoked[i].handler = scope[s].handler

\* C5 witness: a scope whose handler was replaced, and whose handler effect
\* has run since, has been delivered to.
C5_Witness ==
  /\ dispatch.active
  /\ \E i \in DOMAIN invoked :
       LET s == invoked[i].listener.scope
       IN /\ scope[s].status = "active"
          /\ scope[s].replaced
          /\ scope[s].cleanup.callback = invoked[i].listener
          /\ invoked[i].handler = scope[s].handler

\* The latest render of call site s supplied the key and options of its
\* registration: at most the handler is new.
SameKeyAndOptions(s) ==
  /\ scope[s].status = "rendered"
  /\ scope[s].cleanup # None
  /\ scope[s].cleanup.eventKey = scope[s].eventKey
  /\ scope[s].cleanup.options = scope[s].options

\* C6: a re-render that keeps the key and options, and the effects it
\* schedules, leave the window's listener list and the scope's registration
\* as they were.
C6_HandlerChangeKeepsRegistry ==
  [][\A s \in Scopes :
       /\ (scope[s].status = "active" /\ scope'[s].status = "rendered") =>
            listeners' = listeners
       /\ (SameKeyAndOptions(s) /\ scope'[s] # scope[s]) =>
            /\ listeners' = listeners
            /\ scope'[s].cleanup = scope[s].cleanup
            /\ scope'[s].status = "active"
            /\ scope'[s].handlerRef = scope[s].handler]_vars

\* C6 witness: a scope whose handler was replaced is active again, next to
\* another registration, and no closure beyond the first two was ever created.
C6_Witness ==
  /\ Len(listeners) = 2
  /\ nextListener = 3
  /\ \E s \in Scopes :
       /\ scope[s].status = "active"
       /\ scope[s].replaced
       /\ scope[s].cleanup.callback = listeners[1].callback

\* Every cleanup closure a listener effect of the hook can have returned for
\* the closure identity id.
CleanupClosures(id) ==
  {[eventKey |-> k, callback |-> EventListener(s, id, k), options |-> o] :
     s \in Scopes, k \in EventKeys, o \in ListenerOptions}

\* The entries of the list that are not of closure c.
Others(list, c) ==
  LET NotOf(l) == l.callback # c
  IN SelectSeq(list, NotOf)

\* C7: running a cleanup again after it has run changes nothing; running any
\* cleanup twice leaves the list as running it once does, and a cleanup
\* removes no entry of another closure; no closure whose cleanup has run is
\* in the list, so none is delivered to.
C7_TeardownIdempotent ==
  /\ \A id \in tornDown : \A c \in CleanupClosures(id) :
       RunCleanup(listeners, c) = listeners
  /\ \A s \in Scopes : scope[s].cleanup # None =>
       LET c == scope[s].cleanup
           once == RunCleanup(listeners, c)
       IN /\ RunCleanup(once, c) = once
          /\ once = Others(listeners, c.callback)
  /\ \A i \in DOMAIN listeners : listeners[i].callback.id \notin tornDown

\* C7 witness: a cleanup has run while two other listeners of one event type
\* are registered.
C7_Witness ==
  /\ tornDown # {}
  /\ Len(listeners) = 2
  /\ listeners[1].type = listeners[2].type

\* The closure of the current registration of call site s is in the list.
ListenerInstalled(s) ==
  /\ scope[s].cleanup # None
  /\ \E i \in DOMAIN listeners : listeners[i].callback = scope[s].cleanup.callback

\* C8 as claimed: every emit on the key of a mounted scope is delivered to it.
C8_DeliveredWhileMounted ==
  AboutToReturn =>
    \A s \in Scopes :
      (scope[s].status \in {"rendered", "active"}
         /\ scope[s].eventKey = dispatch.eventKey) =>
        \E i \in DOMAIN invoked : invoked[i].listener.scope = s

\* C8 amended: the listener is in the list from the run of the listener effect
\* until its cleanup, or until its first delivery when it was installed with
\* once; every emit on the key made while it is in the list is delivered to
\* it; an unmounted scope has no listener in the list, a closure whose cleanup
\* has run never is in the list again, and the cleanup of an unmounted scope
\* eventually runs.
C8_InstalledUntilCleanup ==
  /\ [](\A s \in Scopes :
          /\ (scope[s].status = "active" /\ ~scope[s].options.once) =>
               ListenerInstalled(s)
          /\ (scope[s].status = "rendered" /\ scope[s].cleanup = None) =>
               \A i \in DOMAIN listeners : listeners[i].callback.scope # s
          /\ scope[s].status = "unmounted" =>
               \A i \in DOMAIN listeners : listeners[i].callback.scope # s)
  /\ [](AboutToReturn =>
          \A i \in DOMAIN regAtCall :
            regAtCall[i].callback.eventKey = dispatch.eventKey =>
              Calls(regAtCall[i].callback) # {})
  /\ [](\A i \in DOMAIN listeners : listeners[i].callback.id \notin tornDown)
  /\ \A s \in Scopes :
       (scope[s].status = "unmounting") ~> (scope[s].status = "unmounted")

\* C8 witness: a scope has been unmounted and cleaned up, and another scope
\* whose listener was installed with once has received its delivery and lost
\* its listener while still active.
C8_Witness ==
  /\ tornDown # {}
  /\ scope[1].status = "unmounted"
  /\ scope[2].status = "active"
  /\ scope[2].options.once
  /\ ~ListenerInstalled(2)

\* C9: an emit on an identifier to which no handler is subscribed invokes no
\* handler and leaves the listener list as it was.
C9_NoSubscriberNoDelivery ==
  (dispatch.active /\ SubscribedAtCall(dispatch.eventKey) = <<>>) =>
    /\ invoked = <<>>
    /\ listeners = regAtCall

\* C10: handlers are invoked only between the call of emit and its return, one
\* at a time, and when emit returns every listener that was registered for the
\* event type at the call has been invoked.
C10_SynchronousDelivery ==
  [][/\ (invoked' # invoked /\ invoked' # <<>>) =>
          /\ dispatch.active
          /\ dispatch'.active
          /\ \E call \in {CallListener(l, dispatch.detail) :
                            l \in {regAtCall[i] : i \in DOMAIN regAtCall}} :
               invoked' = Append(invoked, call)
     /\ (dispatch.active /\ ~dispatch'.active) =>
          \A i \in DOMAIN regAtCall :
            regAtCall[i].type = dispatch.type => Calls(regAtCall[i].callback) # {}
     /\ ~dispatch.active => invoked = <<>>]_vars

\* C10 witness: emit is about to return and both listeners registered at the
\* call have been invoked.
C10_Witness ==
  /\ AboutToReturn
  /\ Len(regAtCall) = 2
  /\ Len(invoked) = Len(regAtCall)
  /\ regAtCall[1].capture
  /\ regAtCall[2].once

\* ---- handlers that change subscriptions while they run -------------------
\* A handler body may force a synchronous commit (flushSync around a state
\* update): React then renders, commits and runs the passive effects before
\* the handler returns, so the hook's listener effect or its cleanup runs
\* inside the delivery pass.

\* Mutant: the component is unmounted but the listener effect has no cleanup.
HandlerUnmountsNoCleanup(s) ==
  /\ dispatch.active
  /\ dispatch.running # None
  /\ EffectsFlushed
  /\ scope[s].status = "active"
  /\ tornDown' = tornDown \cup {scope[s].cleanup.callback.id}
  /\ scope' = [scope EXCEPT ![s] = UnmountedScope]
  /\ dispatch' = [dispatch EXCEPT
                    !.selfOnly = @ /\ scope[s].cleanup.callback = dispatch.running]
  /\ UNCHANGED <<sender, listeners, invoked, regAtCall, nextListener, nextHandler>>

\* Mutant: the dispatch walks the live list by index, so a removal during the
\* pass makes it step over the next listener.
HandlerUnmountsShifts(s) ==
  /\ dispatch.active
  /\ dispatch.running # None
  /\ EffectsFlushed
  /\ scope[s].status = "active"
  /\ listeners' = RunCleanup(listeners, scope[s].cleanup)
  /\ tornDown' = tornDown \cup {scope[s].cleanup.callback.id}
  /\ scope' = [scope EXCEPT ![s] = UnmountedScope]
  /\ dispatch' = [dispatch EXCEPT
                    !.selfOnly = @ /\ scope[s].cleanup.callback = dispatch.running,
                    !.todo = IF @ = <<>> THEN @ ELSE Tail(@)]
  /\ UNCHANGED <<sender, invoked, regAtCall, nextListener, nextHandler>>

\* The running handler unmounts the component of call site s: the cleanup
\* of its listener effect runs before the handler returns.
HandlerUnmounts(s) ==
  /\ dispatch.active
  /\ dispatch.running # None
  /\ EffectsFlushed
  /\ scope[s].status = "active"
  /\ listeners' = RunCleanup(listeners, scope[s].cleanup)
  /\ tornDown' = tornDown \cup {scope[s].cleanup.callback.id}
  /\ scope' = [scope EXCEPT ![s] = UnmountedScope]
  /\ dispatch' = [dispatch EXCEPT
                    !.selfOnly = @ /\ scope[s].cleanup.callback = dispatch.running]
  /\ UNCHANGED <<sender, invoked, regAtCall, nextListener, nextHandler>>

\* The running handler mounts a component with a call site s: its render and
\* both effects run before the handler returns.
HandlerMounts(s, eventKey, handler, options) ==
  /\ dispatch.active
  /\ dispatch.running # None
  /\ EffectsFlushed
  /\ FirstUnmounted(s)
  /\ nextListener <= MaxListeners
  /\ handler = nextHandler
  /\ nextHandler' = nextHandler + 1
  /\ LET eventListener == EventListener(s, nextListener, eventKey)
     IN /\ listeners' = addEventListener(listeners, String(eventKey),
                                         eventListener, options)
        /\ nextListener' = nextListener + 1
        /\ scope' = [scope EXCEPT ![s] =
             [status |-> "active", eventKey |-> eventKey, handler |-> handler,
              options |-> options, handlerRef |-> handler,
              pendingHandler |-> FALSE, pendingListener |-> FALSE,
              cleanup |-> [eventKey |-> eventKey, callback |-> eventListener,
                           options |-> options],
              replaced |-> FALSE, received |-> <<>>, expected |-> <<>>]]
        /\ dispatch' = [dispatch EXCEPT !.selfOnly = FALSE,
                                        !.added = @ \cup {eventListener}]
  /\ UNCHANGED <<sender, invoked, regAtCall, tornDown>>

ReentrantNext ==
  \/ Next
  \/ \E s \in Scopes : HandlerUnmounts(s)
  \/ \E s \in Scopes, k \in EventKeys, h \in Handlers, o \in ListenerOptions :
       HandlerMounts(s, k, h, o)

ReentrantSpec == Init /\ [][ReentrantNext]_vars

\* The listeners that were in the window's list for the type of the event
\* when emit was called.
RegisteredAtCall ==
  {regAtCall[i] : i \in {j \in DOMAIN regAtCall : regAtCall[j].type = dispatch.type}}

\* The closures of a set of listener entries.
Closures(entries) == {l.callback : l \in entries}

\* The step calls the listener closure c.
Invokes(c) ==
  /\ Len(invoked') = Len(invoked) + 1
  /\ invoked'[Len(invoked')].listener = c

\* C11 as claimed: a delivery pass invokes exactly the handlers that were
\* registered when emit was called, whatever the handlers of the pass
\* subscribe or unsubscribe.
C11_ExactlyRegisteredAtCall ==
  AboutToReturn =>
    {invoked[i].listener : i \in DOMAIN invoked} = Closures(RegisteredAtCall)

\* C11 amended: each phase of a pass works on the list as it was when the
\* phase began and skips what has been removed since. A listener registered
\* during a phase is not called in that phase, and one registered during the
\* pass is called only if it is a non-capture listener (in the bubbling
\* phase); a listener that was registered at the call of emit is called
\* unless its cleanup ran during the pass, and a listener is never called
\* after its cleanup; no listener is called twice in a pass.
C11_PhaseSnapshot ==
  /\ [](dispatch.active =>
         /\ \A i \in DOMAIN invoked :
              /\ Cardinality(Calls(invoked[i].listener)) = 1
              /\ \/ invoked[i].listener \in Closures(RegisteredAtCall)
                 \/ invoked[i].listener.id \in tornDown
                 \/ \E s \in Scopes :
                      /\ scope[s].cleanup # None
                      /\ scope[s].cleanup.callback = invoked[i].listener
                      /\ ~scope[s].cleanup.options.capture
         /\ AboutToReturn =>
              \A l \in RegisteredAtCall :
                Calls(l.callback) # {} \/ l.callback.id \in tornDown)
  /\ [][\A id \in 1..MaxListeners, s \in Scopes, k \in EventKeys :
          Invokes(EventListener(s, id, k)) =>
            /\ id \notin tornDown
            /\ EventListener(s, id, k) \notin dispatch.added]_vars

\* C11 witness: emit is about to return from a pass in which a handler
\* unsubscribed a listener that was registered at the call, which was
\* therefore skipped, and in which a listener registered during the pass
\* was called.
C11_Witness ==
  /\ AboutToReturn
  /\ \E l \in RegisteredAtCall :
       Calls(l.callback) = {} /\ l.callback.id \in tornDown
  /\ \E i \in DOMAIN invoked :
       invoked[i].listener \notin Closures(RegisteredAtCall)

\* C12: a handler that unsubscribes itself while it runs does not disturb the
\* pass. When the only subscription changes made by the handlers of a pass
\* are such self-removals, every listener that was registered for the event
\* type at the call of emit is called exactly once, in the order of the pass
\* (capture listeners first, each group in subscription order); and no
\* closure is called after its cleanup has run, in this pass or a later one.
C12_SelfUnsubscribeKeepsPass ==
  /\ [](AboutToReturn /\ dispatch.selfOnly =>
         [i \in DOMAIN invoked |-> invoked[i].listener] =
           Callbacks(CaptureFirst(InCreationOrder(RegisteredAtCall))))
  /\ [][\A id \in 1..MaxListeners, s \in Scopes, k \in EventKeys :
          Invokes(EventListener(s, id, k)) => id \notin tornDown]_vars

\* C12 witness: emit is about to return from a pass in which a handler
\* removed its own registration and another listener was called after it.
C12_Witness ==
  /\ AboutToReturn
  /\ dispatch.selfOnly
  /\ \E i, j \in DOMAIN invoked :
       /\ i < j
       /\ invoked[i].listener.id \in tornDown
       /\ invoked[i].listener \in Closures(RegisteredAtCall)

\* ---- handlers that mutate the payload or raise ---------------------------
\* event.detail is the object the publisher passed to emit, not a copy: the
\* running handler writes to the object it received, and the write is a write
\* to the detail of the event and to the publisher's object.
HandlerMutatesPayload(v) ==
  /\ dispatch.active
  /\ dispatch.running # None
  /\ v # dispatch.detail
  /\ dispatch' = [dispatch EXCEPT !.detail = v]
  /\ UNCHANGED <<sender, listeners, scope, invoked, regAtCall, nextListener, tornDown, nextHandler>>

\* Mutant: the exception of a listener leaves dispatchEvent at once.
ReportExceptionRethrows(d) ==
  [d EXCEPT !.reported = @ \cup {d.running}, !.running = None,
            !.exception = d.running, !.phase = "bubbling", !.todo = <<>>]

\* Mutant: the exception of a listener is reported and ends the pass.
ReportExceptionAborts(d) ==
  [d EXCEPT !.reported = @ \cup {d.running}, !.running = None,
            !.phase = "bubbling", !.todo = <<>>]

\* The callback of a listener raised: the dispatch reports the exception
\* (the window's error event) and goes on with the next listener; nothing
\* is thrown to the caller of dispatchEvent.
ReportException(d) ==
  [d EXCEPT !.reported = @ \cup {d.running}, !.running = None]

\* The running handler raises.
HandlerThrows ==
  /\ dispatch.active
  /\ dispatch.running # None
  /\ dispatch' = ReportException(dispatch)
  /\ UNCHANGED <<sender, listeners, scope, invoked, regAtCall, nextListener, tornDown, nextHandler>>

HandlerBodyNext ==
  \/ Next
  \/ \E v \in Payloads : HandlerMutatesPayload(v)
  \/ HandlerThrows

HandlerBodySpec == Init /\ [][HandlerBodyNext]_vars

\* C13: the payload is not shared: every handler of the pass receives the
\* value the publisher passed to emit, whatever the handlers called before
\* it did to what they received, and the publisher's object still has that
\* value when emit returns.
C13_NoSharedPayload ==
  /\ \A i \in DOMAIN invoked : invoked[i].payload = dispatch.payload
  /\ AboutToReturn => dispatch.detail = dispatch.payload

\* The closure c was registered with the once option by the listener effect
\* of a call site that has not run its cleanup.
RegisteredOnce(c) ==
  \E s \in Scopes :
    /\ scope[s].cleanup # None
    /\ scope[s].cleanup.callback = c
    /\ scope[s].cleanup.options.once

\* C14 as claimed: an emit and its delivery neither add nor remove a
\* registration, whatever options the listeners were registered with.
C14_EmitKeepsRegistry ==
  dispatch.active => listeners = regAtCall

\* C14 amended: the only change an emit makes to the window's list is the
\* removal of the listeners registered with the once option that it has
\* called; every other listener stays registered, in place.
C14_EmitRemovesOnlyOnce ==
  dispatch.active =>
    LET Stays(l) == ~(Calls(l.callback) # {} /\ RegisteredOnce(l.callback))
    IN listeners = SelectSeq(regAtCall, Stays)

\* C14 witness: during one emit a listener registered with once has been
\* called and removed, and another listener has been called and is still
\* registered.
C14_Witness ==
  /\ dispatch.active
  /\ Len(listeners) < Len(regAtCall)
  /\ \E i \in DOMAIN invoked : \E j \in DOMAIN listeners :
       listeners[j].callback = invoked[i].listener

\* C15 as claimed: when a handler raised during the pass, the error reaches
\* the caller of emit.
C15_ErrorReachesCaller ==
  AboutToReturn /\ dispatch.reported # {} => dispatch.exception # None

\* C15 amended: emit has no try/catch of its own, but the error of a handler
\* does not leave window.dispatchEvent: it is reported, the pass goes on,
\* and emit returns to its caller normally.
C15_ErrorReportedNotRethrown ==
  /\ dispatch.active => dispatch.exception = None
  /\ AboutToReturn => ENABLED EmitReturn
  /\ \A c \in dispatch.reported : Calls(c) # {}

\* C15 witness: emit is about to return from a pass in which a handler
\* raised.
C15_Witness ==
  /\ AboutToReturn
  /\ dispatch.reported # {}
  /\ ENABLED EmitReturn

\* C19: a handler that raises does not end the pass and does not touch the
\* registry. When emit is about to return, every listener registered for the
\* event type at the call has been called exactly once, in the order of the
\* pass, whichever of them raised; and the step in which a handler raises
\* leaves the window's list and the call sites unchanged.
C19_RemainingHandlersRun ==
  /\ [](AboutToReturn =>
         [i \in DOMAIN invoked |-> invoked[i].listener] =
           Callbacks(CaptureFirst(InCreationOrder(RegisteredAtCall))))
  /\ [][dispatch'.reported # dispatch.reported =>
          listeners' = listeners /\ scope' = scope]_vars

\* C19 witness: emit is about to return from a pass in which a handler
\* raised and another handler was called after it.
C19_Witness ==
  /\ AboutToReturn
  /\ \E i, j \in DOMAIN invoked :
       i < j /\ invoked[i].listener \in dispatch.reported

\* ---- a receiver: handlers that append what they receive ------------------
MaxReceived == 2

\* The call site s has a listener in the window's list which its listener
\* effect registered for identifier k.
Subscribed(s, k) ==
  /\ scope[s].cleanup # None
  /\ scope[s].cleanup.eventKey = k
  /\ \E i \in DOMAIN listeners : listeners[i].callback = scope[s].cleanup.callback

\* emit is called in the receiver scenario; expected records, for each call
\* site, the payloads emitted on the identifier it is subscribed to.
ReceiverEmitCall(eventKey, payload) ==
  /\ ~dispatch.active
  /\ \A s \in Scopes : /\ Len(scope[s].received) < MaxReceived
                        /\ Len(scope[s].expected) < MaxReceived
  /\ LET event == CustomEvent(String(eventKey), payload)
     IN dispatch' = [active |-> TRUE, eventKey |-> eventKey, payload |-> payload,
                     type |-> event.type, detail |-> event.detail,
                     phase |-> "capturing", todo |-> listeners,
                     running |-> None, reported |-> {}, exception |-> None,
                     selfOnly |-> TRUE, added |-> {}]
  /\ invoked' = <<>>
  /\ regAtCall' = listeners
  /\ scope' = [s \in Scopes |->
                IF Subscribed(s, eventKey)
                THEN [scope[s] EXCEPT !.expected = Append(@, payload)]
                ELSE scope[s]]
  /\ UNCHANGED <<sender, listeners, nextListener, tornDown, nextHandler>>

\* The dispatch calls the next listener; its handler is the receiver's:
\* (payload) => setMessages(prev => [...prev, payload]).
InvokeReceiver ==
  /\ dispatch.active
  /\ EligibleIndexes(dispatch, listeners) # {}
  /\ LET i == Min(EligibleIndexes(dispatch, listeners))
         l == dispatch.todo[i]
     IN /\ listeners' = IF l.once
                        THEN removeEventListener(listeners, l.type, l.callback, l)
                        ELSE listeners
        /\ invoked' = Append(invoked, CallListener(l, dispatch.detail))
        /\ scope' = [scope EXCEPT ![l.callback.scope].received =
                                    Append(@, dispatch.detail)]
        /\ dispatch' = [dispatch EXCEPT
                          !.todo = SubSeq(dispatch.todo, i + 1, Len(dispatch.todo)),
                          !.running = l.callback]
  /\ UNCHANGED <<sender, regAtCall, nextListener, tornDown, nextHandler>>

ReceiverNext ==
  \/ \E s \in Scopes, k \in EventKeys, h \in Handlers, o \in ListenerOptions :
       Mount(s, k, h, o)
  \/ \E s \in Scopes, k \in EventKeys, h \in Handlers, o \in ListenerOptions :
       Rerender(s, k, h, o)
  \/ \E s \in Scopes : CleanupEffect(s)
  \/ \E s \in Scopes : CreateEffects(s)
  \/ \E s \in Scopes : Unmount(s)
  \/ \E s \in Scopes : UnmountCleanup(s)
  \/ \E k \in EventKeys, p \in Payloads : ReceiverEmitCall(k, p)
  \/ InvokeReceiver
  \/ BubblingPhase
  \/ EmitReturn

ReceiverSpec == Init /\ [][ReceiverNext]_vars

\* C16: whenever no emit is in progress, the list of a receiver holds exactly
\* the payloads that were emitted on its identifier while it was subscribed,
\* in emission order (so an emit on another identifier, or one made while it
\* is not subscribed, leaves the list unchanged).
C16_ReceiverHoldsEmitted ==
  ~dispatch.active =>
    \A s \in Scopes : scope[s].received = scope[s].expected

\* ---- createTypedEventModule ----------------------------------------------
\* The hook called in a render of call site s: its first render or a later one.
useTypedEventListener(s, eventKey, handler, options) ==
  \/ Mount(s, eventKey, handler, options)
  \/ Rerender(s, eventKey, handler, options)

\* Mutant: the module's emit names the event by the description of the key.
typedEmitByDescription(eventKey, payload) ==
  /\ ~dispatch.active
  /\ LET event == CustomEvent(eventKey.description, payload)
     IN dispatch' = [active |-> TRUE, eventKey |-> eventKey, payload |-> payload,
                     type |-> event.type, detail |-> event.detail,
                     phase |-> "capturing", todo |-> listeners,
                     running |-> None, reported |-> {}, exception |-> None,
                     selfOnly |-> TRUE, added |-> {}]
  /\ invoked' = <<>>
  /\ regAtCall' = listeners
  /\ UNCHANGED <<sender, listeners, scope, nextListener, tornDown, nextHandler>>

\* typedEmit: return emit<M, K>(eventKey, payload)
typedEmit(eventKey, payload) == EmitCall(eventKey, payload)

\* useTypedListener: return useTypedEventListener<M, K>(eventKey, handler, options)
useTypedListener(s, eventKey, handler, options) ==
  useTypedEventListener(s, eventKey, handler, options)

\* The program that uses only what createTypedEventModule returns:
\* {emit: typedEmit, useListener: useTypedListener}.
TypedNext ==
  \/ \E s \in Scopes, k \in EventKeys, h \in Handlers, o \in ListenerOptions :
       useTypedListener(s, k, h, o)
  \/ \E s \in Scopes : CleanupEffect(s)
  \/ \E s \in Scopes : CreateEffects(s)
  \/ \E s \in Scopes : Unmount(s)
  \/ \E s \in Scopes : UnmountCleanup(s)
  \/ \E k \in EventKeys, p \in Payloads : typedEmit(k, p)
  \/ InvokeListener
  \/ BubblingPhase
  \/ EmitReturn

TypedSpec == Init /\ [][TypedNext]_vars

\* C17: the typed module passes through to the untyped functions and keeps
\* no state. Every behaviour of the program that uses the module's emit and
\* useListener is a behaviour of the program that calls emit and
\* useTypedEventListener directly, and in every step a call of the module's
\* function changes the registry, the call sites and the invocations exactly
\* as the untyped call with the same arguments does.
C17_TypedIsPassThrough ==
  /\ Init
  /\ [][Next]_vars
  /\ [][\A k \in EventKeys, p \in Payloads :
          typedEmit(k, p) <=> EmitCall(k, p)]_vars
  /\ [][\A s \in Scopes, k \in EventKeys, h \in Handlers, o \in ListenerOptions :
          useTypedListener(s, k, h, o) <=> (Mount(s, k, h, o) \/ Rerender(s, k, h, o))]_vars

\* C17 witness: in the program that uses the module, an emit is about to
\* return after it called the latest handler of a call site that was
\* rendered again with a new handler.
C17_Witness ==
  /\ AboutToReturn
  /\ \E i \in DOMAIN invoked :
       LET s == invoked[i].listener.scope
       IN /\ scope[s].replaced
          /\ scope[s].status = "active"
          /\ invoked[i].handler = scope[s].handler
          /\ invoked[i].payload = dispatch.payload

\* The listeners of the window's list that call site s registered.
RegistrationsOf(s) == {i \in DOMAIN listeners : listeners[i].callback.scope = s}

\* C18: a call site holds at most one registration; once the effects of its
\* latest render have run, the registration is for the key of that render
\* and only an emit on that key invokes the call site's handler (so after a
\* key change an emit on the old key does not).
C18_OneRegistrationForCurrentKey ==
  \A s \in Scopes :
    /\ Cardinality(RegistrationsOf(s)) <= 1
    /\ scope[s].status = "active" =>
         /\ \A i \in RegistrationsOf(s) :
              listeners[i].callback.eventKey = scope[s].eventKey
         /\ \A i \in DOMAIN invoked :
              invoked[i].listener.scope = s => dispatch.eventKey = scope[s].eventKey

\* ---- EventExample: the sender --------------------------------------------
MaxTextLen == 2
MaxCounter == 2
MaxTime == 2

\* Texts are sequences of characters; " " stands for any whitespace.
Chars == {" ", "a"}
Texts == UNION {[1..n -> Chars] : n \in 0..MaxTextLen}
Times == 1..MaxTime

\* Mutant: trim returns its argument.
trimNothing(text) == text

\* String.prototype.trim: the text without leading and trailing whitespace.
RECURSIVE trim(_)
trim(text) ==
  IF text = <<>> THEN <<>>
  ELSE IF Head(text) = " " THEN trim(Tail(text))
  ELSE IF text[Len(text)] = " " THEN trim(SubSeq(text, 1, Len(text) - 1))
  ELSE text

\* The dispatch record at the call of emit(eventKey, payload).
NewDispatch(eventKey, payload) ==
  LET event == CustomEvent(String(eventKey), payload)
  IN [active |-> TRUE, eventKey |-> eventKey, payload |-> payload,
      type |-> event.type, detail |-> event.detail,
      phase |-> "capturing", todo |-> listeners,
      running |-> None, reported |-> {}, exception |-> None,
      selfOnly |-> TRUE, added |-> {}]

\* onChange of the input: setMessageText(e.target.value)
ChangeMessageText(text) ==
  /\ ~dispatch.active
  /\ text # sender.messageText
  /\ sender' = [sender EXCEPT !.messageText = text]
  /\ UNCHANGED <<listeners, scope, dispatch, invoked, regAtCall, nextListener,
                 nextHandler, tornDown>>

\* handleSendMessage up to the call of myEmit: it returns at once when the
\* trimmed text is empty; id and timestamp are two readings of Date.now().
HandleSendMessage(id, timestamp) ==
  /\ ~dispatch.active
  /\ id <= timestamp
  /\ IF trim(sender.messageText) = <<>>
     THEN UNCHANGED vars
     ELSE /\ dispatch' = NewDispatch(MESSAGE_SENT,
                 [id |-> id, text |-> sender.messageText, timestamp |-> timestamp])
          /\ invoked' = <<>>
          /\ regAtCall' = listeners
          /\ sender' = [sender EXCEPT !.emitting = "handleSendMessage"]
          /\ UNCHANGED <<listeners, scope, nextListener, nextHandler, tornDown>>

\* handleChangeCounter up to the call of myEmit: setCounter(newValue), then
\* the emit of {value: newValue, previousValue: counter}.
HandleChangeCounter(increment) ==
  /\ ~dispatch.active
  /\ LET previousValue == sender.counter
         newValue == IF increment THEN sender.counter + 1 ELSE sender.counter - 1
     IN /\ newValue \in -MaxCounter..MaxCounter
        /\ dispatch' = NewDispatch(COUNTER_CHANGED,
               [value |-> newValue, previousValue |-> previousValue])
        /\ sender' = [sender EXCEPT !.counter = newValue,
                                    !.emitting = "handleChangeCounter"]
  /\ invoked' = <<>>
  /\ regAtCall' = listeners
  /\ UNCHANGED <<listeners, scope, nextListener, nextHandler, tornDown>>

\* myEmit returns to the click handler, which finishes: handleSendMessage
\* clears the input (setMessageText('')), handleChangeCounter has nothing
\* left to do.
SenderEmitReturn ==
  /\ dispatch.active
  /\ DispatchDone(dispatch, listeners)
  /\ dispatch.exception = None
  /\ dispatch' = IdleDispatch
  /\ invoked' = <<>>
  /\ regAtCall' = <<>>
  /\ sender' = IF sender.emitting = "handleSendMessage"
               THEN [sender EXCEPT !.messageText = <<>>, !.emitting = None]
               ELSE [sender EXCEPT !.emitting = None]
  /\ UNCHANGED <<listeners, scope, nextListener, nextHandler, tornDown>>

\* EventReceiver's two call sites: useMyEventListener(MyEvent.MESSAGE_SENT, ...)
\* and useMyEventListener(MyEvent.COUNTER_CHANGED, ...), without options.
ReceiverKey(s) == IF s = 1 THEN MESSAGE_SENT ELSE COUNTER_CHANGED

\* The EventExample page: the sender's handlers, the receiver's call sites
\* (their handlers are new closures in every render) and the dispatch.
SenderNext ==
  \/ \E text \in Texts : ChangeMessageText(text)
  \/ \E id \in Times, timestamp \in Times : HandleSendMessage(id, timestamp)
  \/ \E increment \in BOOLEAN : HandleChangeCounter(increment)
  \/ SenderEmitReturn
  \/ \E s \in Scopes, h \in Handlers : Mount(s, ReceiverKey(s), h, NoOptions)
  \/ \E s \in Scopes, h \in Handlers : Rerender(s, ReceiverKey(s), h, NoOptions)
  \/ \E s \in Scopes : CreateEffects(s)
  \/ \E s \in Scopes : Unmount(s)
  \/ \E s \in Scopes : UnmountCleanup(s)
  \/ InvokeListener
  \/ BubblingPhase

SenderSpec == Init /\ [][SenderNext]_vars

\* The text is empty or whitespace only.
Blank(text) == \A i \in DOMAIN text : text[i] = " "

\* The step in which a click handler of the sender calls emit.
SenderEmits == ~dispatch.active /\ dispatch'.active

\* C20: the sender emits MESSAGE_SENT only from handleSendMessage and only
\* for a text that is not blank: a step taken with a blank text starts no
\* emit and leaves the text as it is; the one emit of a run of
\* handleSendMessage carries the text as typed (untrimmed), the text is still
\* in the input while the emit is delivered, and it is cleared when the emit
\* has returned, without a second emit. Every COUNTER_CHANGED payload has
\* value = previousValue + 1 or value = previousValue - 1.
C20_SenderEmits ==
  /\ [](dispatch.active =>
         /\ dispatch.eventKey \in {MESSAGE_SENT, COUNTER_CHANGED}
         /\ dispatch.eventKey = MESSAGE_SENT =>
              /\ sender.emitting = "handleSendMessage"
              /\ ~Blank(dispatch.payload.text)
              /\ dispatch.payload.text = sender.messageText
         /\ dispatch.eventKey = COUNTER_CHANGED =>
              /\ sender.emitting = "handleChangeCounter"
              /\ \/ dispatch.payload.value = dispatch.payload.previousValue + 1
                 \/ dispatch.payload.value = dispatch.payload.previousValue - 1)
  /\ [][SenderEmits /\ dispatch'.eventKey = MESSAGE_SENT =>
          /\ ~Blank(sender.messageText)
          /\ dispatch'.payload.text = sender.messageText
          /\ sender'.messageText = sender.messageText]_vars
  /\ [][Blank(sender.messageText) /\ ~dispatch.active /\ dispatch'.active =>
          dispatch'.eventKey = COUNTER_CHANGED]_vars
  /\ [][dispatch.active /\ ~dispatch'.active /\ dispatch.eventKey = MESSAGE_SENT =>
          sender'.messageText = <<>> /\ sender'.emitting = None]_vars

\* C20 witness: a message typed with surrounding whitespace is being
\* delivered, untrimmed, to the receiver's handler.
C20_Witness ==
  /\ AboutToReturn
  /\ dispatch.eventKey = MESSAGE_SENT
  /\ Len(invoked) = 1
  /\ invoked[1].payload.text # trim(invoked[1].payload.text)
  /\ invoked[1].payload.text = sender.messageText

====
